---- MODULE Spec2Model ----
(***************************************************************************)
(* Zeeky kernel service (services/kernel/main.py): the in-memory plugin    *)
(* registry, the keyword classifier, the entity extractor, the router, the *)
(* response generator and the four HTTP handlers that use them.            *)
(*                                                                         *)
(* Strings are TLA+ strings; TLC evaluates Len, \o and SubSeq on them, so  *)
(* lower(), split() and the "in" substring test are computed character by  *)
(* character as Python computes them.                                      *)
(***************************************************************************)
EXTENDS Integers, Sequences, FiniteSets, TLC

VARIABLES
    plugins_registry,   \* main.py:72   insertion-ordered dict id -> PluginInfo
    start_time,         \* main.py:73   wall-clock reading taken at import
    wall_clock,         \* what datetime.now() returns (environment)
    response,           \* the body of the last HTTP response sent
    last_submitted,     \* history: id -> the last PluginRegistration posted under it
    first_order,        \* history: ids in the order of their first registration
    tasks,              \* concurrent serving: the coroutine of each request
    commits,            \* concurrent serving: registrations in the order they ran
    text,               \* pure functions: the input text
    classified,         \* pure functions: classify_intent(text), once called
    extracted           \* pure functions: extract_entities(text), once called

vars == <<plugins_registry, start_time, wall_clock, response, last_submitted,
          first_order, tasks, commits, text, classified, extracted>>

(***************************************************************************)
(* Bounds of the model.                                                    *)
(***************************************************************************)
MaxFrags == 3
MaxClock == 1
MaxTasks == 3

(***************************************************************************)
(* Optional[T]: None, or a value.                                          *)
(***************************************************************************)
None == <<>>
Some(x) == <<x>>

Min(S) == CHOOSE m \in S : \A n \in S : m <= n

(***************************************************************************)
(* Python str operations.                                                  *)
(***************************************************************************)
UpperCase == "ABCDEFGHIJKLMNOPQRSTUVWXYZ"
LowerCase == "abcdefghijklmnopqrstuvwxyz"
Whitespace == {" ", "\t", "\n", "\r"}

CharAt(s, i) == SubSeq(s, i, i)

UpperSet == {CharAt(UpperCase, i) : i \in 1..Len(UpperCase)}
LowerMap ==
    [c \in UpperSet |->
        CharAt(LowerCase, CHOOSE i \in 1..Len(UpperCase) : CharAt(UpperCase, i) = c)]

\* c.lower() for one character
char_lower(c) == IF c \in UpperSet THEN LowerMap[c] ELSE c

\* s.lower()
RECURSIVE str_lower(_)
str_lower(s) ==
    IF s = "" THEN ""
    ELSE char_lower(CharAt(s, 1)) \o str_lower(SubSeq(s, 2, Len(s)))

\* word in s   (substring containment)
str_contains(s, word) ==
    \E i \in 1..(Len(s) - Len(word) + 1) : SubSeq(s, i, i + Len(word) - 1) = word

\* s.split(): maximal runs of non-whitespace characters, in order
RECURSIVE split_from(_, _, _, _)
split_from(s, i, cur, acc) ==
    IF i > Len(s)
    THEN IF cur = "" THEN acc ELSE Append(acc, cur)
    ELSE IF CharAt(s, i) \in Whitespace
         THEN split_from(s, i + 1, "", IF cur = "" THEN acc ELSE Append(acc, cur))
         ELSE split_from(s, i + 1, cur \o CharAt(s, i), acc)

str_split(s) == split_from(s, 1, "", <<>>)

(***************************************************************************)
(* classify_intent, main.py:141-156.                                       *)
(***************************************************************************)
MusicWords    == {"play", "music", "song", "album"}
CalendarWords == {"schedule", "meeting", "calendar", "appointment"}
NoteWords     == {"note", "remember", "write", "save"}
WeatherWords  == {"weather", "temperature", "forecast"}
NewsWords     == {"news", "headlines", "update"}

any_word_in(words, s) == \E word \in words : str_contains(s, word)

\* variant: the first two checks in the other order
classify_calendar_first(t) ==
    LET text_lower == str_lower(t)
    IN  IF any_word_in(CalendarWords, text_lower) THEN "calendar_management"
        ELSE IF any_word_in(MusicWords, text_lower) THEN "music_control"
        ELSE IF any_word_in(NoteWords, text_lower) THEN "note_taking"
        ELSE IF any_word_in(WeatherWords, text_lower) THEN "weather_query"
        ELSE IF any_word_in(NewsWords, text_lower) THEN "news_query"
        ELSE "general_query"

classify_intent(t) ==
    LET text_lower == str_lower(t)
    IN  IF any_word_in(MusicWords, text_lower) THEN "music_control"
        ELSE IF any_word_in(CalendarWords, text_lower) THEN "calendar_management"
        ELSE IF any_word_in(NoteWords, text_lower) THEN "note_taking"
        ELSE IF any_word_in(WeatherWords, text_lower) THEN "weather_query"
        ELSE IF any_word_in(NewsWords, text_lower) THEN "news_query"
        ELSE "general_query"

(***************************************************************************)
(* extract_entities, main.py:158-170.                                      *)
(***************************************************************************)
MediaWords == {"music", "song", "album"}
EventWords == {"meeting", "appointment"}

Entity(type, value, start, end) ==
    [type |-> type, value |-> value, start |-> start, end |-> end]

\* the loop body for enumerate index i (0-based) over words
RECURSIVE extract_loop(_, _, _)
extract_loop(words, i, entities) ==
    IF i >= Len(words) THEN entities
    ELSE LET word == words[i + 1]
         IN  IF str_lower(word) \in MediaWords
             THEN extract_loop(words, i + 1,
                               Append(entities, Entity("media_type", word, i, i + 1)))
             ELSE IF str_lower(word) \in EventWords
             THEN extract_loop(words, i + 1,
                               Append(entities, Entity("event_type", word, i, i + 1)))
             ELSE extract_loop(words, i + 1, entities)

\* variant: the lower-cased word is what gets recorded
RECURSIVE extract_loop_lowered(_, _, _)
extract_loop_lowered(words, i, entities) ==
    IF i >= Len(words) THEN entities
    ELSE LET word == str_lower(words[i + 1])
         IN  IF word \in MediaWords
             THEN extract_loop_lowered(words, i + 1,
                               Append(entities, Entity("media_type", word, i, i + 1)))
             ELSE IF word \in EventWords
             THEN extract_loop_lowered(words, i + 1,
                               Append(entities, Entity("event_type", word, i, i + 1)))
             ELSE extract_loop_lowered(words, i + 1, entities)

extract_entities_lowered(t) == extract_loop_lowered(str_split(t), 0, <<>>)

extract_entities(t) == extract_loop(str_split(t), 0, <<>>)

(***************************************************************************)
(* Inputs the handlers are exercised with.                                 *)
(***************************************************************************)
PluginIds == {"", "P1", "P2"}

\* (name, version, description, capabilities) a registration is posted with
Submissions ==
    { [name |-> "Player", version |-> "1.0.0", description |-> "plays media",
       capabilities |-> <<"music_control">>],
      [name |-> "Helper", version |-> "2.1.0", description |-> "general help",
       capabilities |-> <<"weather_query">>],
      [name |-> "Helper", version |-> "2.1.0", description |-> "general help",
       capabilities |-> <<"weather_query", "music_control">>] }

\* PluginRegistration, main.py:63-69
Registrations ==
    { [id |-> i, name |-> m.name, version |-> m.version,
       description |-> m.description, capabilities |-> m.capabilities,
       endpoint |-> "http://plugin.local"] :
         i \in PluginIds, m \in Submissions }

RequestTexts ==
    { "Play MUSIC", "What's the weather tomorrow?", "hello" }

IntentLabels ==
    { "music_control", "calendar_management", "note_taking",
      "weather_query", "news_query", "general_query" }

(***************************************************************************)
(* dict, as CPython implements it: entries kept in insertion order;        *)
(* assigning to a key that is present replaces its value in place.         *)
(***************************************************************************)
dict_index(d, k) == {i \in 1..Len(d) : d[i].key = k}

\* variant: delete the key, then insert it (the key moves to the end)
dict_setitem_move_to_end(d, k, v) ==
    LET kept == {i \in 1..Len(d) : d[i].key # k}
        rest == [n \in 1..Cardinality(kept) |->
                    d[CHOOSE i \in kept : Cardinality({j \in kept : j <= i}) = n]]
    IN  Append(rest, [key |-> k, value |-> v])

\* variant: a list of entries that is appended to without a key lookup
dict_setitem_append(d, k, v) == Append(d, [key |-> k, value |-> v])

\* variant: an existing entry is updated in part (capabilities only)
dict_setitem_merge(d, k, v) ==
    IF dict_index(d, k) = {}
    THEN Append(d, [key |-> k, value |-> v])
    ELSE [d EXCEPT ![Min(dict_index(d, k))].value.capabilities = v.capabilities]

\* d[k] = v
dict_setitem(d, k, v) ==
    IF dict_index(d, k) = {}
    THEN Append(d, [key |-> k, value |-> v])
    ELSE [d EXCEPT ![Min(dict_index(d, k))].value = v]

\* list(d.values())
dict_values(d) == [i \in 1..Len(d) |-> d[i].value]

\* x in lst
list_contains(lst, x) == \E j \in 1..Len(lst) : lst[j] = x

(***************************************************************************)
(* PluginInfo, main.py:55-61, as register_plugin builds it (123-130).      *)
(***************************************************************************)
PluginInfo(plugin) ==
    [id |-> plugin.id, name |-> plugin.name, version |-> plugin.version,
     description |-> plugin.description, capabilities |-> plugin.capabilities,
     status |-> "active"]

(***************************************************************************)
(* route_to_plugin, main.py:172-177: the first entry, in dict order, whose *)
(* capabilities list contains the intent.                                  *)
(***************************************************************************)
\* variant: the capability test is dropped
route_to_first_key(intent, entities) ==
    IF plugins_registry = <<>> THEN None ELSE Some(plugins_registry[1].key)

route_to_plugin(intent, entities) ==
    LET hits == {i \in 1..Len(plugins_registry) :
                    list_contains(plugins_registry[i].value.capabilities, intent)}
    IN  IF hits = {} THEN None ELSE Some(plugins_registry[Min(hits)].key)

(***************************************************************************)
(* generate_response, main.py:179-184.  "if plugin_id:" is Python          *)
(* truthiness: None and the empty string both take the else branch.        *)
(***************************************************************************)
truthy(opt) == opt # None /\ opt[1] # ""

generate_response(intent, entities, plugin_id) ==
    IF truthy(plugin_id)
    THEN "Processing " \o intent \o " using plugin " \o plugin_id[1]
    ELSE "I understand you want to " \o intent \o ". Let me help you with that."

\* the placeholder confidence 0.8 of main.py:104, as a fraction
Confidence == [num |-> 8, den |-> 10]

\* IntentResponse, main.py:102-108
IntentResponse(intent, entities, resp, plugin_id) ==
    [intent |-> intent, confidence |-> Confidence, entities |-> entities,
     response |-> resp, plugin_id |-> plugin_id]

Http(endpoint, body) == [endpoint |-> endpoint, status_code |-> 200, body |-> body]

NoResponse == [endpoint |-> "none", status_code |-> 0, body |-> <<>>]

(***************************************************************************)
(* The handlers, each run from its first line to its return.               *)
(***************************************************************************)
other_vars == <<tasks, commits, text, classified, extracted>>

\* GET /health, main.py:75-84
health_check ==
    /\ response' = Http("GET /health",
                        [status |-> "healthy", timestamp |-> wall_clock,
                         version |-> "1.0.0", uptime |-> wall_clock - start_time])
    /\ UNCHANGED <<plugins_registry, start_time, wall_clock, last_submitted,
                   first_order, other_vars>>

\* POST /intent, main.py:86-112
process_intent ==
    \E t \in RequestTexts :
        LET intent == classify_intent(t)
            entities == extract_entities(t)
            plugin_id == route_to_plugin(intent, entities)
            resp == generate_response(intent, entities, plugin_id)
        IN  /\ response' = Http("POST /intent",
                                IntentResponse(intent, entities, resp, plugin_id))
            /\ UNCHANGED <<plugins_registry, start_time, wall_clock, last_submitted,
                           first_order, other_vars>>

\* variant: a listing that consumes the entry it reads last
get_plugins_popping ==
    /\ response' = Http("GET /plugins", dict_values(plugins_registry))
    /\ plugins_registry' = SubSeq(plugins_registry, 1, Len(plugins_registry) - 1)
    /\ UNCHANGED <<start_time, wall_clock, last_submitted, first_order, other_vars>>

\* GET /plugins, main.py:114-117
get_plugins ==
    /\ response' = Http("GET /plugins", dict_values(plugins_registry))
    /\ UNCHANGED <<plugins_registry, start_time, wall_clock, last_submitted,
                   first_order, other_vars>>

\* POST /plugins, main.py:119-139
register_plugin ==
    \E plugin \in Registrations :
        LET plugin_info == PluginInfo(plugin)
        IN  /\ plugins_registry' = dict_setitem(plugins_registry, plugin.id, plugin_info)
            /\ response' = Http("POST /plugins", plugin_info)
            /\ last_submitted' = [last_submitted EXCEPT ![plugin.id] = Some(plugin)]
            /\ first_order' = IF \E n \in 1..Len(first_order) : first_order[n] = plugin.id
                              THEN first_order
                              ELSE Append(first_order, plugin.id)
            /\ UNCHANGED <<start_time, wall_clock, other_vars>>

(***************************************************************************)
(* The wall clock datetime.now() reads.  It advances with time, and it is  *)
(* set back when the system time is corrected or local time leaves DST.    *)
(***************************************************************************)
clock_advances ==
    /\ wall_clock < MaxClock
    /\ wall_clock' = wall_clock + 1
    /\ UNCHANGED <<plugins_registry, start_time, response, last_submitted,
                   first_order, other_vars>>

clock_set_back ==
    /\ wall_clock > 0
    /\ wall_clock' = wall_clock - 1
    /\ UNCHANGED <<plugins_registry, start_time, response, last_submitted,
                   first_order, other_vars>>

Init ==
    /\ plugins_registry = <<>>
    /\ wall_clock \in 0..MaxClock
    /\ start_time = wall_clock
    /\ response = NoResponse
    /\ last_submitted = [i \in PluginIds |-> None]
    /\ first_order = <<>>
    /\ tasks = <<>>
    /\ commits = <<>>
    /\ text = ""
    /\ classified = None
    /\ extracted = None

Next ==
    \/ health_check
    \/ process_intent
    \/ get_plugins
    \/ register_plugin
    \/ clock_advances
    \/ clock_set_back

Spec == Init /\ [][Next]_vars

(***************************************************************************)
(* The pure functions on their own: a text is drawn, then classify_intent  *)
(* and extract_entities are called on it.                                  *)
(***************************************************************************)
Fragments ==
    { "play", "Music", "song", "MEETING", "note", "re", "member", "weather",
      "news", " ", "s" }

ExampleTexts ==
    { "remember to play music", "play the music now",
      "schedule a meeting tomorrow", "What's the weather tomorrow?",
      " Song\tALBUM  appointment\n" }

\* concatenations of at most n fragments
RECURSIVE FragmentTexts(_)
FragmentTexts(n) ==
    IF n = 0 THEN {""}
    ELSE LET shorter == FragmentTexts(n - 1)
         IN  shorter \cup {p \o f : p \in shorter, f \in Fragments}

Texts == FragmentTexts(MaxFrags) \cup ExampleTexts

server_vars == <<plugins_registry, start_time, wall_clock, response,
                 last_submitted, first_order, tasks, commits>>

call_classify_intent ==
    /\ classified = None
    /\ classified' = Some(classify_intent(text))
    /\ UNCHANGED <<text, extracted, server_vars>>

call_extract_entities ==
    /\ extracted = None
    /\ extracted' = Some(extract_entities(text))
    /\ UNCHANGED <<text, classified, server_vars>>

InitPure ==
    /\ text \in Texts
    /\ classified = None
    /\ extracted = None
    /\ plugins_registry = <<>>
    /\ wall_clock = 0
    /\ start_time = 0
    /\ response = NoResponse
    /\ last_submitted = [i \in PluginIds |-> None]
    /\ first_order = <<>>
    /\ tasks = <<>>
    /\ commits = <<>>

NextPure == call_classify_intent \/ call_extract_entities

SpecPure == InitPure /\ [][NextPure]_vars

(***************************************************************************)
(* Concurrent serving.  Every handler is an "async def" run on the one     *)
(* event loop: a coroutine runs without interruption from one await to the *)
(* next.  register_plugin and get_plugins hold no await; process_intent    *)
(* holds one, at main.py:100, after the router has been called.            *)
(***************************************************************************)
TaskIds == 1..MaxTasks

ConcRegistrations ==
    { r \in Registrations :
        \/ r.id = "P1" /\ r.capabilities # <<"weather_query", "music_control">>
        \/ r.id = "P2" /\ r.capabilities = <<"weather_query", "music_control">> }

ConcTexts == { "Play MUSIC", "What's the weather tomorrow?" }

Task(kind, pc, arg, result, seen) ==
    [kind |-> kind, pc |-> pc, arg |-> arg, result |-> result, seen |-> seen]

IdleTask == Task("none", "idle", None, None, None)

seq_vars == <<start_time, wall_clock, response, last_submitted, first_order,
              text, classified, extracted>>

\* the HTTP surface parses a request and schedules its handler
accept_request(t) ==
    /\ tasks[t].pc = "idle"
    /\ \/ \E plugin \in ConcRegistrations :
             tasks' = [tasks EXCEPT ![t] =
                          Task("POST /plugins", "scheduled", plugin, None, None)]
       \/ \E txt \in ConcTexts :
             tasks' = [tasks EXCEPT ![t] =
                          Task("POST /intent", "scheduled", txt, None, None)]
       \/ tasks' = [tasks EXCEPT ![t] =
                          Task("GET /plugins", "scheduled", None, None, None)]
    /\ UNCHANGED <<plugins_registry, commits, seq_vars>>

\* register_plugin, main.py:122-135, entry to return
run_register_plugin(t) ==
    /\ tasks[t].pc = "scheduled"
    /\ tasks[t].kind = "POST /plugins"
    /\ LET plugin == tasks[t].arg
           plugin_info == PluginInfo(plugin)
       IN  /\ plugins_registry' = dict_setitem(plugins_registry, plugin.id, plugin_info)
           /\ commits' = Append(commits, plugin)
           /\ tasks' = [tasks EXCEPT ![t].pc = "returned",
                                     ![t].result = Some(plugin_info),
                                     ![t].seen = Some(Len(commits) + 1)]
    /\ UNCHANGED seq_vars

\* process_intent, main.py:89-100, entry to the await
run_process_intent(t) ==
    /\ tasks[t].pc = "scheduled"
    /\ tasks[t].kind = "POST /intent"
    /\ LET intent == classify_intent(tasks[t].arg)
           entities == extract_entities(tasks[t].arg)
           plugin_id == route_to_plugin(intent, entities)
       IN  tasks' = [tasks EXCEPT ![t].pc = "awaiting",
                                  ![t].result = Some([intent |-> intent,
                                                      entities |-> entities,
                                                      plugin_id |-> plugin_id]),
                                  ![t].seen = Some(Len(commits))]
    /\ UNCHANGED <<plugins_registry, commits, seq_vars>>

\* process_intent, main.py:100-108, the await's result to return
resume_process_intent(t) ==
    /\ tasks[t].pc = "awaiting"
    /\ LET l == tasks[t].result[1]
           resp == generate_response(l.intent, l.entities, l.plugin_id)
       IN  tasks' = [tasks EXCEPT ![t].pc = "returned",
                                  ![t].result = Some(IntentResponse(l.intent, l.entities,
                                                                    resp, l.plugin_id))]
    /\ UNCHANGED <<plugins_registry, commits, seq_vars>>

\* get_plugins, main.py:117
run_get_plugins(t) ==
    /\ tasks[t].pc = "scheduled"
    /\ tasks[t].kind = "GET /plugins"
    /\ tasks' = [tasks EXCEPT ![t].pc = "returned",
                              ![t].result = Some(dict_values(plugins_registry)),
                              ![t].seen = Some(Len(commits))]
    /\ UNCHANGED <<plugins_registry, commits, seq_vars>>

\* the HTTP surface serialises the returned value and sends it
send_response(t) ==
    /\ tasks[t].pc = "returned"
    /\ tasks' = [tasks EXCEPT ![t].pc = "done"]
    /\ UNCHANGED <<plugins_registry, commits, seq_vars>>

InitConc ==
    /\ plugins_registry = <<>>
    /\ wall_clock = 0
    /\ start_time = 0
    /\ response = NoResponse
    /\ last_submitted = [i \in PluginIds |-> None]
    /\ first_order = <<>>
    /\ tasks = [t \in TaskIds |-> IdleTask]
    /\ commits = <<>>
    /\ text = ""
    /\ classified = None
    /\ extracted = None

NextConc ==
    \E t \in TaskIds :
        \/ accept_request(t)
        \/ run_register_plugin(t)
        \/ run_process_intent(t)
        \/ resume_process_intent(t)
        \/ run_get_plugins(t)
        \/ send_response(t)

SpecConc == InitConc /\ [][NextConc]_vars

(***************************************************************************)
(* Vocabulary of the properties.                                           *)
(***************************************************************************)
RouteIntents == IntentLabels \cup {"custom_capability"}

\* positions of the registry entries that declare the intent
Declaring(reg, intent) ==
    {i \in 1..Len(reg) :
        \E j \in 1..Len(reg[i].value.capabilities) :
            reg[i].value.capabilities[j] = intent}

Registered == {id \in PluginIds : last_submitted[id] # None}

SameMetadata(info, plugin) ==
    /\ info.id = plugin.id
    /\ info.name = plugin.name
    /\ info.version = plugin.version
    /\ info.description = plugin.description
    /\ info.capabilities = plugin.capabilities

\* the entries of a dict under keys other than k, in order
Others(d, k) == SelectSeq(d, LAMBDA e : e.key # k)

(***************************************************************************)
(* C1.  After any sequence of registrations, route_to_plugin(intent)       *)
(* returns an id only if that id is in the registry with the intent among  *)
(* its stored capabilities, and returns None exactly when no registered    *)
(* plugin declares the intent; the plugin_id of a POST /intent response    *)
(* obeys the same for the classified intent.                               *)
(***************************************************************************)
C1_RouteSound ==
    /\ \A intent \in RouteIntents :
          LET r == route_to_plugin(intent, <<>>)
              declaring == Declaring(plugins_registry, intent)
          IN  /\ r # None => \E i \in declaring : plugins_registry[i].key = r[1]
              /\ r = None <=> declaring = {}
    /\ response.endpoint = "POST /intent" =>
          LET r == response.body.plugin_id
              declaring == Declaring(plugins_registry, response.body.intent)
          IN  /\ r # None => \E i \in declaring : plugins_registry[i].key = r[1]
              /\ r = None <=> declaring = {}

C1_Witness ==
    /\ Len(plugins_registry) = 1
    /\ plugins_registry[1].key = "P1"
    /\ plugins_registry[1].value.capabilities = <<"music_control">>
    /\ route_to_plugin("music_control", <<>>) = Some("P1")
    /\ route_to_plugin("weather_query", <<>>) = None
    /\ response.endpoint = "POST /intent"
    /\ response.body.plugin_id = Some("P1")

(***************************************************************************)
(* C2.  Re-registration overwrites: the registry holds exactly one entry   *)
(* for every id ever registered and none for any other id, and the entry's *)
(* name, version, description and capabilities are those of the most       *)
(* recent registration under that id.                                      *)
(***************************************************************************)
C2_LastWriteWins ==
    \A id \in PluginIds :
        LET entries == {i \in 1..Len(plugins_registry) : plugins_registry[i].key = id}
        IN  IF last_submitted[id] = None
            THEN entries = {}
            ELSE /\ Cardinality(entries) = 1
                 /\ \A i \in entries :
                       SameMetadata(plugins_registry[i].value, last_submitted[id][1])

\* P1 was registered before P2 and has just been registered again, this time
\* as "Helper" with other capabilities than P2's.
C2_Witness ==
    /\ first_order = <<"P1", "P2">>
    /\ response.endpoint = "POST /plugins"
    /\ response.body.id = "P1"
    /\ response.body.name = "Helper"
    /\ Len(plugins_registry) = 2
    /\ plugins_registry[1].value.name = "Helper"
    /\ plugins_registry[2].value.name = "Player"

(***************************************************************************)
(* C3.  GET /plugins returns every registry entry exactly once: n entries  *)
(* after registrations under n distinct ids (none before the first), each  *)
(* matching the last submission for its id and each with status "active";  *)
(* no entry of the registry and no POST /plugins response has any other    *)
(* status.                                                                 *)
(***************************************************************************)
C3_ListComplete ==
    /\ \A i \in 1..Len(plugins_registry) : plugins_registry[i].value.status = "active"
    /\ response.endpoint = "POST /plugins" => response.body.status = "active"
    /\ response.endpoint = "GET /plugins" =>
          /\ Len(response.body) = Cardinality(Registered)
          /\ \A id \in Registered :
                LET at == {k \in 1..Len(response.body) : response.body[k].id = id}
                IN  /\ Cardinality(at) = 1
                    /\ \A k \in at :
                          /\ SameMetadata(response.body[k], last_submitted[id][1])
                          /\ response.body[k].status = "active"

C3_Witness ==
    /\ response.endpoint = "GET /plugins"
    /\ Len(response.body) = 2
    /\ Cardinality(Registered) = 2

(***************************************************************************)
(* C4.  For every POST /intent result the response string is "Processing   *)
(* {intent} using plugin {plugin_id}" whenever a plugin id is returned,    *)
(* the fallback sentence only when the plugin id is absent, for every      *)
(* registrable id including the empty string, and the confidence is 0.8.   *)
(***************************************************************************)
C4_ResponseByPresence ==
    response.endpoint = "POST /intent" =>
        LET b == response.body
        IN  /\ b.plugin_id # None =>
                  b.response = "Processing " \o b.intent \o " using plugin " \o b.plugin_id[1]
            /\ b.response = "I understand you want to " \o b.intent
                               \o ". Let me help you with that."
                  => b.plugin_id = None
            /\ b.confidence.num * 10 = 8 * b.confidence.den

(***************************************************************************)
(* C7.  POST /intent, GET /plugins and GET /health leave the registry as   *)
(* it was; a step that changes the registry is a POST /plugins, and it     *)
(* changes nothing but the entry under the submitted id.                   *)
(***************************************************************************)
C7_Step ==
    /\ \/ plugins_registry' = plugins_registry
       \/ ~(health_check \/ process_intent \/ get_plugins)
    /\ plugins_registry' # plugins_registry =>
          /\ register_plugin
          /\ response'.endpoint = "POST /plugins"
          /\ Others(plugins_registry', response'.body.id)
                = Others(plugins_registry, response'.body.id)

\* C7: every step leaves the registry alone unless it is a POST /plugins, which
\* touches only the entry under the submitted id.
C7_ReadOnlyRequests == [][C7_Step]_vars

C7_Witness ==
    /\ Len(plugins_registry) = 2
    /\ response.endpoint = "POST /intent"
    /\ response.body.plugin_id # None

(***************************************************************************)
(* C9.  The uptime GET /health reports is non-negative on every call and   *)
(* does not decrease from one call to the next.                            *)
(***************************************************************************)
C9_Step ==
    response'.endpoint = "GET /health" =>
        /\ response'.body.uptime >= 0
        /\ response.endpoint = "GET /health" =>
              response'.body.uptime >= response.body.uptime

\* C9: every GET /health reports an uptime that is non-negative and not below
\* the one the previous GET /health reported.
C9_UptimeMonotone == [][C9_Step]_vars

(***************************************************************************)
(* C10.  Among the registered plugins that declare an intent the router    *)
(* returns the one whose id was first registered earliest; registering an  *)
(* existing id again keeps its place, so it changes the result for an      *)
(* intent only if it adds the intent to, or removes it from, that plugin's *)
(* capabilities; with no registration in between the result is the same.   *)
(***************************************************************************)
DeclaredBy(id, intent) ==
    /\ last_submitted[id] # None
    /\ \E j \in 1..Len(last_submitted[id][1].capabilities) :
          last_submitted[id][1].capabilities[j] = intent

EarliestDeclaring(intent) ==
    LET at == {n \in 1..Len(first_order) : DeclaredBy(first_order[n], intent)}
    IN  IF at = {} THEN None
        ELSE Some(first_order[CHOOSE n \in at : \A m \in at : n <= m])

C10_State ==
    \A intent \in RouteIntents :
        route_to_plugin(intent, <<>>) = EarliestDeclaring(intent)

C10_Step ==
    \A intent \in RouteIntents :
        LET before == route_to_plugin(intent, <<>>)
            after == (route_to_plugin(intent, <<>>))'
        IN  /\ plugins_registry' = plugins_registry => after = before
            /\ \A id \in PluginIds :
                  ( /\ last_submitted[id] # None
                    /\ response'.endpoint = "POST /plugins"
                    /\ response'.body.id = id
                    /\ register_plugin
                    /\ (DeclaredBy(id, intent))' = DeclaredBy(id, intent) )
                  => after = before

\* C10: the router always answers the earliest first-registered declaring id,
\* and a re-registration that keeps an intent's membership keeps its answer.
C10_FirstRegisteredWins == [] C10_State /\ [][C10_Step]_vars

\* P1 and P2 both declare music_control, P1 was registered first and has just
\* been registered again; the router still answers P1.
C10_Witness ==
    /\ first_order = <<"P1", "P2">>
    /\ response.endpoint = "POST /plugins"
    /\ response.body.id = "P1"
    /\ DeclaredBy("P1", "music_control")
    /\ DeclaredBy("P2", "music_control")
    /\ route_to_plugin("music_control", <<>>) = Some("P1")

(***************************************************************************)
(* C5.  classify_intent returns the highest-priority category (music >     *)
(* calendar > note > weather > news) one of whose keywords occurs in the   *)
(* lower-cased text, and general_query exactly when no keyword occurs.     *)
(***************************************************************************)
Priority ==
    << [label |-> "music_control",
        keywords |-> {"play", "music", "song", "album"}],
       [label |-> "calendar_management",
        keywords |-> {"schedule", "meeting", "calendar", "appointment"}],
       [label |-> "note_taking",
        keywords |-> {"note", "remember", "write", "save"}],
       [label |-> "weather_query",
        keywords |-> {"weather", "temperature", "forecast"}],
       [label |-> "news_query",
        keywords |-> {"news", "headlines", "update"}] >>

Occurs(w, s) == \E i \in 0..(Len(s) - Len(w)) : SubSeq(s, i + 1, i + Len(w)) = w

\* ranks of the categories with a keyword in the lower-cased text
Matching(t) ==
    {n \in 1..Len(Priority) : \E w \in Priority[n].keywords : Occurs(w, str_lower(t))}

C5_PriorityOrder ==
    classified # None =>
        LET m == Matching(text)
        IN  /\ m # {} => /\ classified[1] = Priority[Min(m)].label
                         /\ \A n \in m : n >= Min(m)
            /\ classified[1] = "general_query" <=> m = {}
            /\ Cardinality(m) = 1 => \A n \in m : classified[1] = Priority[n].label

C5_Witness ==
    /\ text = "remember to play music"
    /\ Matching(text) = {1, 3}
    /\ classified = Some("music_control")

(***************************************************************************)
(* C6.  extract_entities returns, in token order, one record for each      *)
(* whitespace-separated token whose lower-cased text is a vocabulary word  *)
(* and none for any other token; a record has start = the token's index,   *)
(* end = start + 1 and value = the token as written.                       *)
(***************************************************************************)
VocabularyType(w) ==
    IF w \in {"music", "song", "album"} THEN "media_type"
    ELSE IF w \in {"meeting", "appointment"} THEN "event_type"
    ELSE "none"

C6_OneRecordPerMatch ==
    extracted # None =>
        LET tokens == str_split(text)
            found == extracted[1]
        IN  /\ Len(found) <= Len(tokens)
            /\ \A k \in 1..Len(found) :
                  /\ found[k].start \in 0..(Len(tokens) - 1)
                  /\ found[k].end = found[k].start + 1
                  /\ found[k].value = tokens[found[k].start + 1]
                  /\ found[k].type # "none"
                  /\ found[k].type = VocabularyType(str_lower(tokens[found[k].start + 1]))
                  /\ DOMAIN found[k] = {"type", "value", "start", "end"}
            /\ \A k \in 1..(Len(found) - 1) : found[k].start < found[k + 1].start
            /\ \A i \in 1..Len(tokens) :
                  VocabularyType(str_lower(tokens[i])) # "none"
                      <=> \E k \in 1..Len(found) : found[k].start = i - 1

C6_Witness ==
    /\ text = " Song\tALBUM  appointment\n"
    /\ extracted = Some(<< [type |-> "media_type", value |-> "Song", start |-> 0, end |-> 1],
                           [type |-> "media_type", value |-> "ALBUM", start |-> 1, end |-> 2],
                           [type |-> "event_type", value |-> "appointment",
                            start |-> 2, end |-> 3] >>)

(***************************************************************************)
(* C8.  Under any interleaving of the request coroutines, every lookup and *)
(* every listing observes the registry that results from a whole number of *)
(* registrations, the ones that had run when it looked: a returned         *)
(* plugin_id names a plugin that declared the intent in that registry, an  *)
(* absent one means no plugin of that registry declared it, and a listing  *)
(* holds exactly that registry's entries, each as last submitted.          *)
(***************************************************************************)
\* the last of the first k registrations that was posted under id, if any
LastOfFirst(k, id) ==
    LET at == {n \in 1..k : commits[n].id = id}
    IN  IF at = {} THEN None
        ELSE Some(commits[CHOOSE n \in at : \A m \in at : m <= n])

DeclaresAfter(k, id, intent) ==
    /\ LastOfFirst(k, id) # None
    /\ \E j \in 1..Len(LastOfFirst(k, id)[1].capabilities) :
          LastOfFirst(k, id)[1].capabilities[j] = intent

C8_WholeRegistrations ==
    \A t \in DOMAIN tasks :
        /\ (tasks[t].kind = "POST /intent" /\ tasks[t].pc \in {"awaiting", "returned", "done"}) =>
              LET k == tasks[t].seen[1]
                  r == tasks[t].result[1]
              IN  /\ k \in 0..Len(commits)
                  /\ r.plugin_id # None => DeclaresAfter(k, r.plugin_id[1], r.intent)
                  /\ r.plugin_id = None =>
                        \A id \in PluginIds : ~DeclaresAfter(k, id, r.intent)
        /\ (tasks[t].kind = "GET /plugins" /\ tasks[t].pc \in {"returned", "done"}) =>
              LET k == tasks[t].seen[1]
                  body == tasks[t].result[1]
                  ids == {id \in PluginIds : LastOfFirst(k, id) # None}
              IN  /\ k \in 0..Len(commits)
                  /\ Len(body) = Cardinality(ids)
                  /\ \A id \in ids :
                        \E n \in 1..Len(body) :
                            /\ SameMetadata(body[n], LastOfFirst(k, id)[1])
                            /\ body[n].status = "active"

\* a lookup ran between two registrations: it saw the first and answered P1,
\* and P1 has since been registered again without music_control
C8_Witness ==
    \E t \in DOMAIN tasks :
        /\ tasks[t].kind = "POST /intent"
        /\ tasks[t].pc = "awaiting"
        /\ tasks[t].seen = Some(1)
        /\ tasks[t].result[1].plugin_id = Some("P1")
        /\ Len(commits) = 2
        /\ plugins_registry[1].value.capabilities = <<"weather_query">>

====
